---- MODULE Spec2Model ----
(***************************************************************************)
(* CascadeMerge of law/contrib/tasks/__init__.py: the cascade forest       *)
(* (_build_cascade_trees), the requirement resolution of a node            *)
(* (requires) and the execution of a node (run), driven by an engine that  *)
(* runs a node once its requirements are present.                          *)
(***************************************************************************)
EXTENDS Integers, Sequences, FiniteSets, TLC

VARIABLES
    n_inputs,          \* number of leaves cascade_workflow_requires() yields
    merge_factor,      \* class attribute merge_factor
    n_trees,           \* number of trees, from the shape of cascade_output()
    keep_nodes,        \* parameter keep_nodes
    n_cascade_leaves,  \* parameter n_cascade_leaves (NO_INT until determined)
    cascade_trees_,    \* workflow attribute _cascade_trees
    leaves_per_tree_,  \* workflow attribute _leaves_per_tree
    n_builds,          \* how often _build_cascade_trees has executed
    reqs,              \* what the last call of requires() returned, and for whom
    run,               \* per started node: position in run(), gathered inputs
    exists,            \* targets currently present in storage
    removed            \* targets on which remove() has succeeded

vars == <<n_inputs, merge_factor, n_trees, keep_nodes, n_cascade_leaves,
          cascade_trees_, leaves_per_tree_, n_builds, reqs, run, exists,
          removed>>

----------------------------------------------------------------------------
(* Bounds of the model *)

MaxLeaves == 8
MaxFactor == 3
MaxTrees == 2
MaxLeavesAddr == 112
MinFactorAddr == 10
MaxFactorAddr == 11
MaxLeavesOverride == 4
MaxLeavesLive == 4

(* law.parameter.NO_INT *)
NO_INT == -1

----------------------------------------------------------------------------
(* Python values *)

\* None and a held value; a list is a sequence, a tuple is a sequence
None == [none |-> TRUE, v |-> <<>>]
Some(x) == [none |-> FALSE, v |-> x]

\* truth value of "not x" for x None or a list
Falsy(o) == o.none \/ Len(o.v) = 0

\* an element of the nested leaf list: a leaf number or a list of elements
Leaf(i) == [list |-> FALSE, v |-> i]
List(s) == [list |-> TRUE, v |-> s]

Min(a, b) == IF a < b THEN a ELSE b

RECURSIVE Sum(_)
Sum(s) == IF Len(s) = 0 THEN 0 ELSE s[1] + Sum(Tail(s))

\* s[:j] of a sequence
Prefix(s, j) == SubSeq(s, 1, Min(j, Len(s)))

----------------------------------------------------------------------------
(* _build_cascade_trees *)

\* law.util.iter_chunks on a list: consecutive chunks of size items, the last
\* one possibly shorter
iter_chunks(l, size) ==
    [j \in 1..((Len(l) + size - 1) \div size) |->
        List(SubSeq(l, (j - 1) * size + 1, Min(j * size, Len(l))))]

\* a loop that stops one round early: "while len(nested_leaves) > k"
RECURSIVE nest_stop_early(_, _)
nest_stop_early(nested_leaves, k) ==
    IF Len(nested_leaves) > k
    THEN nest_stop_early(iter_chunks(nested_leaves, k), k)
    ELSE nested_leaves

\* the loop "while len(nested_leaves) > 1"
RECURSIVE nest(_, _)
nest(nested_leaves, k) ==
    IF Len(nested_leaves) > 1
    THEN nest(iter_chunks(nested_leaves, k), k)
    ELSE nested_leaves

\* The helper nodify: isNone says that the argument node is None.
RECURSIVE nodify(_, _, _), nodifyItems(_, _, _)
nodify(obj, node, isNone) ==
    IF ~obj.list THEN <<>>
    ELSE LET nodes == IF isNone THEN <<>> ELSE <<node>>
             path == IF isNone THEN <<>> ELSE node
         IN nodes \o nodifyItems(obj.v, path, 1)

\* the loop "for i, _obj in enumerate(obj)", from the i-th item on (1-based)
nodifyItems(items, node, i) ==
    IF i > Len(items) THEN <<>>
    ELSE nodify(items[i], Append(node, i - 1), FALSE)
         \o nodifyItems(items, node, i + 1)

\* tree.setdefault(depth, []).append(node) over all nodes: depth -> nodes of
\* that depth, in the order found
treeOf(nodes) ==
    [d \in {Len(nodes[i]) - 1 : i \in DOMAIN nodes} |->
        SelectSeq(nodes, LAMBDA nd : Len(nd) - 1 = d)]

\* one tree of n_leaves leaves
buildTree(n_leaves, k) ==
    LET leaves == [i \in 1..n_leaves |-> Leaf(i - 1)]
        nested_leaves == nest(leaves, k)
    IN treeOf(nodify(List(nested_leaves), <<>>, TRUE))

\* leaves_per_tree_of with the remainder handed to one tree too many
leaves_per_tree_of_off_by_one(n, T) ==
    [i \in 1..T |-> IF i - 1 <= n % T THEN n \div T + 1 ELSE n \div T]

\* "determine the number of leaves per tree"
leaves_per_tree_of(n, T) ==
    [i \in 1..T |-> IF i - 1 < n % T THEN n \div T + 1 ELSE n \div T]

\* lines 152-158: the number of leaves, taken from the upstream requirement
\* when the parameter is not set
leaves_to_merge == IF n_cascade_leaves = NO_INT THEN n_inputs ELSE n_cascade_leaves

\* what _build_cascade_trees stores: n_cascade_leaves, _leaves_per_tree and
\* _cascade_trees
build_cascade_trees ==
    LET n == leaves_to_merge
        lpt == leaves_per_tree_of(n, n_trees)
    IN [n |-> n,
        leaves_per_tree |-> lpt,
        trees |-> [t \in 1..n_trees |-> buildTree(lpt[t], merge_factor)]]

\* the workflow after an access of the property cascade_trees: built when
\* _cascade_trees is unset or empty, otherwise as stored
\* needs_build with the stored forest never reused
needs_build_always == TRUE

\* line 117: "if not self._cascade_trees"
needs_build == Falsy(cascade_trees_)

forest ==
    IF needs_build THEN build_cascade_trees
    ELSE [n |-> n_cascade_leaves,
          leaves_per_tree |-> leaves_per_tree_.v,
          trees |-> cascade_trees_.v]

\* property cascade_trees, its value
cascade_trees == forest.trees

\* property leaves_per_tree, read after cascade_trees has been accessed
leaves_per_tree == forest.leaves_per_tree

\* the state change of an access of cascade_trees
AccessCascadeTrees ==
    LET f == forest
    IN /\ cascade_trees_' = Some(f.trees)
       /\ leaves_per_tree_' = Some(f.leaves_per_tree)
       /\ n_cascade_leaves' = f.n
       /\ n_builds' = IF needs_build THEN n_builds + 1 ELSE n_builds

----------------------------------------------------------------------------
(* A node descriptor: cascade_tree t, cascade_depth d, branch b (0-based) *)

MaxOf(S) == CHOOSE x \in S : \A y \in S : y <= x

\* the attribute depth that is_root and requires read
depth(cascade_depth) == cascade_depth

\* cascade_trees[cascade_tree]
tree_of(t) == cascade_trees[t + 1]

\* create_branch_map: KeyError when the tree has no such depth
create_branch_map(t, d) ==
    LET tree == tree_of(t)
    IN IF d \notin DOMAIN tree
       THEN [err |-> "KeyError", map |-> <<>>]
       ELSE [err |-> "",
             map |-> [b \in 0..(Len(tree[d]) - 1) |-> tree[d][b + 1]]]

\* branch_value: the node tuple the branch map gives for the branch
branch_value(t, d, b) == create_branch_map(t, d).map[b]

\* is_root
is_root(d) == depth(d) = 0

\* is_leaf: ValueError from max() when the tree has no depth at all
is_leaf(t, d) ==
    LET tree == tree_of(t)
    IN IF DOMAIN tree = {}
       THEN [err |-> "ValueError", v |-> FALSE]
       ELSE [err |-> "", v |-> d = MaxOf(DOMAIN tree)]

\* The node descriptors the engine can create: the branches of the branch
\* maps. There is none before the workflow has created a branch map, which
\* reads cascade_trees.
Nodes ==
    IF Falsy(cascade_trees_) THEN {}
    ELSE UNION {UNION {{<<t, d, b>> : b \in DOMAIN create_branch_map(t, d).map} :
                         d \in DOMAIN tree_of(t)} :
                  t \in 0..(n_trees - 1)}

----------------------------------------------------------------------------
(* requires *)

\* str(v) of a non-negative integer: its decimal digits, as digit values
RECURSIVE str(_)
str(v) == IF v < 10 THEN <<v>> ELSE Append(str(v \div 10), v % 10)

\* "".join(str(v) for v in node)
RECURSIVE join_str(_)
join_str(node) ==
    IF Len(node) = 0 THEN <<>> ELSE str(node[1]) \o join_str(Tail(node))

\* the value of a digit string read in a base, most significant digit first
RECURSIVE digits_value(_, _)
digits_value(value, base) ==
    IF Len(value) = 0 THEN 0
    ELSE digits_value(SubSeq(value, 1, Len(value) - 1), base) * base
         + value[Len(value)]

\* Python's int(value, base) on a string of decimal digit characters:
\* ValueError for a base outside 2..36, an empty string or a digit >= base
int(value, base) ==
    IF \/ base < 2
       \/ base > 36
       \/ Len(value) = 0
       \/ \E i \in DOMAIN value : value[i] >= base
    THEN [err |-> "ValueError", v |-> 0]
    ELSE [err |-> "", v |-> digits_value(value, base)]

\* line 255: offset = sum(self.leaves_per_tree[:self.cascade_tree])
offset_of(t) == Sum(Prefix(leaves_per_tree, t))

\* lines 256-259: start_branch and end_branch of a leaf node
leaf_range(t, d, b) ==
    LET offset == offset_of(t)
        node == branch_value(t, d, b)
        value == join_str(node)
        parsed == int(value, merge_factor)
        start_branch == offset + merge_factor * parsed.v
        end_branch == Min(start_branch + merge_factor, forest.n)
    IN [err |-> parsed.err, start |-> start_branch, end |-> end_branch]

\* child_branches that drops the first value of the child path instead of
\* its last
child_branches_drop_first(t, d, b) ==
    LET node == branch_value(t, d, b)
        layer == tree_of(t)[depth(d) + 1]
        idx == SelectSeq([i \in 1..Len(layer) |-> i],
                         LAMBDA i : SubSeq(layer[i], 2, Len(layer[i])) = node)
    IN [j \in 1..Len(idx) |-> idx[j] - 1]

\* child_branches without the last child of the node
child_branches_drop_last(t, d, b) ==
    LET node == branch_value(t, d, b)
        layer == tree_of(t)[depth(d) + 1]
        idx == SelectSeq([i \in 1..Len(layer) |-> i],
                         LAMBDA i : SubSeq(layer[i], 1, Len(layer[i]) - 1) = node)
    IN [j \in 1..(Len(idx) - 1) |-> idx[j] - 1]

\* line 267: the branches at depth + 1 whose node without its last value is
\* this node, in the order of the layer (0-based branches)
child_branches(t, d, b) ==
    LET node == branch_value(t, d, b)
        layer == tree_of(t)[depth(d) + 1]
        idx == SelectSeq([i \in 1..Len(layer) |-> i],
                         LAMBDA i : SubSeq(layer[i], 1, Len(layer[i]) - 1) = node)
    IN [j \in 1..Len(idx) |-> idx[j] - 1]

\* requires: the leaf range handed to cascade_requires, or the child nodes
requires(t, d, b) ==
    LET leaf == is_leaf(t, d)
    IN IF leaf.err # ""
       THEN [err |-> leaf.err, kind |-> "", start |-> 0, end |-> 0,
             branches |-> <<>>]
       ELSE IF leaf.v
       THEN LET r == leaf_range(t, d, b)
            IN [err |-> r.err, kind |-> "leaves", start |-> r.start,
                end |-> r.end, branches |-> <<>>]
       ELSE [err |-> "", kind |-> "nodes", start |-> 0, end |-> 0,
             branches |-> child_branches(t, d, b)]

----------------------------------------------------------------------------
(* Targets, output, run *)

\* A target is the path of a file: a sequence of characters, in which the
\* directory, the name and the extension of the declared output are single
\* items.
Digit == <<"0", "1", "2", "3", "4", "5", "6", "7", "8", "9">>

\* "{}".format(v) of a non-negative integer
format_int(v) == [i \in 1..Len(str(v)) |-> Digit[str(v)[i] + 1]]

\* the output of upstream leaf i
LeafTarget(i) == <<"leaves/">> \o format_int(i)

\* cascade_output(): one target, or with several trees a collection with one
\* target per tree, all in one directory
cascade_output ==
    IF n_trees = 1
    THEN [collection |-> FALSE, targets |-> <<<<"dir/", "out", ".ext">>>>]
    ELSE [collection |-> TRUE,
          targets |-> [t \in 1..n_trees |->
                         <<"dir/", "out", "_">> \o format_int(t - 1) \o <<".ext">>]]

\* os.path.splitext(output.basename)
output_name == <<"out">>
output_ext == <<".ext">>

\* cascade_cache_directory(): the directory of the declared output
cascade_cache_directory == <<"dir/">>

\* node_format without the depth
node_format_no_depth(name, ext, tree, cascade_depth, branch) ==
    name \o <<".", "t">> \o format_int(tree)
         \o <<".", "b">> \o format_int(branch) \o ext

\* node_format = "{name}.t{tree}.d{depth}.b{branch}{ext}", formatted
node_format(name, ext, tree, cascade_depth, branch) ==
    name \o <<".", "t">> \o format_int(tree)
         \o <<".", "d">> \o format_int(cascade_depth)
         \o <<".", "b">> \o format_int(branch) \o ext

\* output that returns the first declared target for every root
output_first_target(t, d, b) ==
    IF is_root(d)
    THEN cascade_output.targets[1]
    ELSE cascade_cache_directory
         \o node_format(output_name, output_ext, t, d, b)

\* output: the declared output of the tree for the root, a file of the
\* cache directory named by tree, depth and branch otherwise
output(t, d, b) ==
    IF is_root(d)
    THEN IF cascade_output.collection
         THEN cascade_output.targets[t + 1]
         ELSE cascade_output.targets[1]
    ELSE cascade_cache_directory
         \o node_format(output_name, output_ext, t, d, b)

\* self.req(self, branch=b, depth=d): the descriptor of the same tree at
\* that depth and branch
req(t, d, b) == <<t, d, b>>

\* self.input()["cascade"], flattened: the outputs of what requires() names;
\* cascade_requires(start, end) stands for the leaves start..end-1
inputs_of(t, d, b) ==
    LET r == requires(t, d, b)
    IN IF r.kind = "leaves"
       THEN [j \in 1..(IF r.end > r.start THEN r.end - r.start ELSE 0) |->
                LeafTarget(r.start + j - 1)]
       ELSE [j \in 1..Len(r.branches) |->
                LET child == req(t, depth(d) + 1, r.branches[j])
                IN output(child[1], child[2], child[3])]

\* removes_inputs with keep_nodes ignored
removes_inputs_always(t, d) == ~is_leaf(t, d).v

\* removes_inputs of leaf nodes as well
removes_inputs_of_leaves(t, d) == ~keep_nodes

\* line 320: whether run() removes its inputs after the merge
removes_inputs(t, d) == ~is_leaf(t, d).v /\ ~keep_nodes

----------------------------------------------------------------------------
(* Initial states *)

NoReqs ==
    [called |-> FALSE, tree |-> 0, depth |-> 0, branch |-> 0,
     req |-> [err |-> "", kind |-> "", start |-> 0, end |-> 0, branches |-> <<>>]]

\* A fresh workflow (lines 105-111) over n_inputs upstream leaves, all of
\* them produced; nothing merged yet.
InitWith(maxLeaves, minFactor, maxFactor) ==
    /\ n_inputs \in 0..maxLeaves
    /\ merge_factor \in minFactor..maxFactor
    /\ n_trees \in 1..MaxTrees
    /\ keep_nodes \in BOOLEAN
    /\ n_cascade_leaves = NO_INT
    /\ cascade_trees_ = None
    /\ leaves_per_tree_ = None
    /\ n_builds = 0
    /\ reqs = NoReqs
    /\ run = <<>>
    /\ exists = {LeafTarget(i) : i \in 0..(n_inputs - 1)}
    /\ removed = {}

Init == InitWith(MaxLeaves, 2, MaxFactor)

\* merge factors around ten, with enough leaves for a layer of eleven nodes
InitAddr ==
    InitWith(MaxLeavesAddr, MinFactorAddr, MaxFactorAddr) /\ keep_nodes = FALSE

----------------------------------------------------------------------------
(* Actions *)

params == <<n_inputs, merge_factor, n_trees, keep_nodes>>

\* what an access of cascade_trees may change
workflow == <<n_cascade_leaves, cascade_trees_, leaves_per_tree_, n_builds>>

\* the workflow reads its property leaves_per_tree: the stored value, None
\* before a build
GetLeavesPerTree ==
    /\ leaves_per_tree_ \in {None, Some(leaves_per_tree)}
    /\ UNCHANGED vars

\* the workflow reads its property cascade_trees (as create_branch_map does)
GetCascadeTrees ==
    /\ AccessCascadeTrees
    /\ UNCHANGED <<params, reqs, run, exists, removed>>

\* requires() of the node (t, d, b)
Requires(t, d, b) ==
    /\ <<t, d, b>> \in Nodes
    /\ AccessCascadeTrees
    /\ reqs' = [called |-> TRUE, tree |-> t, depth |-> d, branch |-> b,
                req |-> requires(t, d, b)]
    /\ UNCHANGED <<params, run, exists, removed>>

\* The engine starts run() of a node it has not run yet, once requires()
\* has resolved and every required output is present; lines 301-312 gather
\* the inputs.
RunStart(t, d, b) ==
    /\ <<t, d, b>> \in Nodes
    /\ <<t, d, b>> \notin DOMAIN run
    /\ requires(t, d, b).err = ""
    /\ LET inputs == inputs_of(t, d, b)
       IN /\ \A j \in DOMAIN inputs : inputs[j] \in exists
          /\ run' = (<<t, d, b>> :> [pc |-> "merge", inputs |-> inputs, i |-> 1,
                                   merged |-> FALSE]) @@ run
    /\ AccessCascadeTrees
    /\ UNCHANGED <<params, reqs, exists, removed>>

\* on_merge_error with the removal of the inputs run as a cleanup
on_merge_error_cleanup == "remove"

\* line 317 stands in no try block: an exception of merge() ends run()
on_merge_error == "merge_failed"

\* line 317: merge() returns, the output of the node is written
MergeOk(t, d, b) ==
    /\ <<t, d, b>> \in DOMAIN run
    /\ run[<<t, d, b>>].pc = "merge"
    /\ exists' = exists \cup {output(t, d, b)}
    /\ run' = [run EXCEPT ![<<t, d, b>>].merged = TRUE,
                          ![<<t, d, b>>].pc =
                 IF removes_inputs(t, d) /\ Len(run[<<t, d, b>>].inputs) > 0
                 THEN "remove" ELSE "done"]
    /\ AccessCascadeTrees
    /\ UNCHANGED <<params, reqs, removed>>

\* line 317: merge() raises, run() ends with the exception
MergeFail(t, d, b) ==
    /\ <<t, d, b>> \in DOMAIN run
    /\ run[<<t, d, b>>].pc = "merge"
    /\ run' = [run EXCEPT ![<<t, d, b>>].pc = on_merge_error]
    /\ UNCHANGED <<params, workflow, reqs, exists, removed>>

\* lines 323-324: target.remove() of the next input succeeds
RemoveOk(t, d, b) ==
    /\ <<t, d, b>> \in DOMAIN run
    /\ run[<<t, d, b>>].pc = "remove"
    /\ LET r == run[<<t, d, b>>]
           target == r.inputs[r.i]
       IN /\ exists' = exists \ {target}
          /\ removed' = removed \cup {target}
          /\ run' = [run EXCEPT ![<<t, d, b>>] =
                       [pc |-> IF r.i = Len(r.inputs) THEN "done" ELSE "remove",
                        inputs |-> r.inputs,
                        merged |-> r.merged,
                        i |-> IF r.i = Len(r.inputs) THEN r.i ELSE r.i + 1]]
    /\ UNCHANGED <<params, workflow, reqs>>

\* lines 323-324: target.remove() raises, run() ends with the exception
RemoveFail(t, d, b) ==
    /\ <<t, d, b>> \in DOMAIN run
    /\ run[<<t, d, b>>].pc = "remove"
    /\ run' = [run EXCEPT ![<<t, d, b>>].pc = "remove_failed"]
    /\ UNCHANGED <<params, workflow, reqs, exists, removed>>

Next ==
    \/ GetCascadeTrees
    \/ GetLeavesPerTree
    \/ \E nd \in Nodes : RunStart(nd[1], nd[2], nd[3])
    \/ \E nd \in Nodes : MergeOk(nd[1], nd[2], nd[3])
    \/ \E nd \in Nodes : MergeFail(nd[1], nd[2], nd[3])
    \/ \E nd \in Nodes : RemoveOk(nd[1], nd[2], nd[3])
    \/ \E nd \in Nodes : RemoveFail(nd[1], nd[2], nd[3])

Spec == Init /\ [][Next]_vars

\* the forest and the requirement resolution alone, for large merge factors
NextAddr ==
    \/ GetCascadeTrees
    \/ GetLeavesPerTree
    \/ \E nd \in Nodes : Requires(nd[1], nd[2], nd[3])

SpecAddr == InitAddr /\ [][NextAddr]_vars

\* The engine when no merge() raises, under fair scheduling: a step that
\* stays possible is taken.
NextLive ==
    \/ GetCascadeTrees
    \/ GetLeavesPerTree
    \/ \E nd \in Nodes : RunStart(nd[1], nd[2], nd[3])
    \/ \E nd \in Nodes : MergeOk(nd[1], nd[2], nd[3])
    \/ \E nd \in Nodes : RemoveOk(nd[1], nd[2], nd[3])
    \/ \E nd \in Nodes : RemoveFail(nd[1], nd[2], nd[3])

InitLive == InitWith(MaxLeavesLive, 2, MaxFactor)

SpecLive == InitLive /\ [][NextLive]_vars /\ WF_vars(NextLive)

\* A workflow whose parameter n_cascade_leaves may be set, to the number of
\* upstream leaves or to another number.
InitOverride ==
    /\ n_inputs \in 0..MaxLeavesOverride
    /\ merge_factor \in 2..MaxFactor
    /\ n_trees \in 1..MaxTrees
    /\ keep_nodes \in BOOLEAN
    /\ n_cascade_leaves \in {NO_INT} \cup (0..MaxLeavesOverride)
    /\ cascade_trees_ = None
    /\ leaves_per_tree_ = None
    /\ n_builds = 0
    /\ reqs = NoReqs
    /\ run = <<>>
    /\ exists = {LeafTarget(i) : i \in 0..(n_inputs - 1)}
    /\ removed = {}

SpecOverride == InitOverride /\ [][Next]_vars

----------------------------------------------------------------------------
(* Vocabulary of the properties *)

\* the forest has been built and stored
Built == ~cascade_trees_.none

\* the stored tree t and its leaf count (t 0-based)
StoredTree(t) == cascade_trees_.v[t + 1]
LeafCount(t) == leaves_per_tree_.v[t + 1]

TreeIds == 0..(n_trees - 1)

\* the nodes of the deepest layer of tree t: those that merge raw leaves
LeafMergeNodes(t) ==
    IF DOMAIN StoredTree(t) = {} THEN {}
    ELSE LET m == MaxOf(DOMAIN StoredTree(t))
         IN {<<t, m, b>> : b \in 0..(Len(StoredTree(t)[m]) - 1)}

\* the leaf indices in [start, end) of the range requires() computes
RangeOf(nd) ==
    LET r == leaf_range(nd[1], nd[2], nd[3])
    IN {i \in r.start..(r.end - 1) : r.err = ""}

\* the sum of the leaf counts of the trees before tree t
RECURSIVE SliceOffset(_)
SliceOffset(t) == IF t = 0 THEN 0 ELSE SliceOffset(t - 1) + LeafCount(t - 1)

\* the path of a node
PathOf(nd) == StoredTree(nd[1])[nd[2]][nd[3] + 1]

\* the nodes one layer deeper whose path extends the path of nd by one value
ChildNodes(nd) ==
    {c \in Nodes :
        /\ c[1] = nd[1]
        /\ c[2] = nd[2] + 1
        /\ SubSeq(PathOf(c), 1, Len(PathOf(c)) - 1) = PathOf(nd)}

IsLeafMerge(nd) == nd \in LeafMergeNodes(nd[1])

\* merge() of the node has returned
Merged(nd) ==
    nd \in DOMAIN run /\ run[nd].pc \in {"remove", "done", "remove_failed"}

----------------------------------------------------------------------------
(* C1 *)

\* C1: with a single tree, the leaf ranges that requires() computes for the
\* nodes of the deepest layer are non-empty, pairwise disjoint and cover
\* exactly the leaves 0 .. n-1, for every n >= 0.
C1_LeafRangesPartition ==
    (Built /\ n_trees = 1) =>
        /\ \A nd \in LeafMergeNodes(0) : RangeOf(nd) # {}
        /\ \A nd1, nd2 \in LeafMergeNodes(0) :
              nd1 # nd2 => RangeOf(nd1) \cap RangeOf(nd2) = {}
        /\ UNION {RangeOf(nd) : nd \in LeafMergeNodes(0)}
              = 0..(n_cascade_leaves - 1)

----------------------------------------------------------------------------
(* C2 *)

\* C2: every leaf range of a leaf-merge node of tree i lies inside the slice
\* [offset_i, offset_i + leaf_count_i) of that tree.
C2_RangeInsideOwnSlice ==
    Built =>
        \A t \in TreeIds : \A nd \in LeafMergeNodes(t) :
            LET r == leaf_range(nd[1], nd[2], nd[3])
            IN /\ r.err = ""
               /\ SliceOffset(t) <= r.start
               /\ r.end <= SliceOffset(t) + LeafCount(t)

----------------------------------------------------------------------------
(* C3 *)

\* C3: while the merge of a non-leaf node executes, the merge of each of
\* its child nodes has returned and the output of each child is present.
C3_MergeAfterChildren ==
    \A nd \in DOMAIN run :
        (run[nd].pc = "merge" /\ ~IsLeafMerge(nd)) =>
            \A c \in ChildNodes(nd) :
                Merged(c) /\ output(c[1], c[2], c[3]) \in exists

\* a non-leaf node with two children is merging
C3_Witness ==
    \E nd \in DOMAIN run :
        /\ run[nd].pc = "merge"
        /\ ~IsLeafMerge(nd)
        /\ Cardinality(ChildNodes(nd)) >= 2

----------------------------------------------------------------------------
(* C4 *)

\* C4: once run() of a non-leaf node has completed, with keep_nodes false
\* the output of each of its children has been removed, and with keep_nodes
\* true none of them has been removed.
C4_ChildOutputsRemovedUnlessKept ==
    \A nd \in DOMAIN run :
        (run[nd].pc = "done" /\ ~IsLeafMerge(nd)) =>
            \A c \in ChildNodes(nd) :
                LET o == output(c[1], c[2], c[3])
                IN IF keep_nodes
                   THEN o \in exists /\ o \notin removed
                   ELSE o \notin exists /\ o \in removed

\* run() of a non-leaf node with two children has completed, keep_nodes false
C4_Witness ==
    \E nd \in DOMAIN run :
        /\ run[nd].pc = "done"
        /\ ~IsLeafMerge(nd)
        /\ ~keep_nodes
        /\ Cardinality(ChildNodes(nd)) >= 2

----------------------------------------------------------------------------
(* C5 *)

\* C5: no raw leaf artifact and no root output of any tree is ever removed:
\* every upstream leaf stays present, and remove() has succeeded on no leaf
\* and on no final output.
C5_LeavesAndRootsNeverRemoved ==
    /\ \A i \in 0..(n_inputs - 1) :
          LeafTarget(i) \in exists /\ LeafTarget(i) \notin removed
    /\ \A o \in removed :
          /\ \A i \in 0..(n_inputs - 1) : o # LeafTarget(i)
          /\ \A t \in TreeIds : o # cascade_output.targets[t + 1]
    /\ \A nd \in DOMAIN run :
          (nd[2] = 0 /\ Merged(nd)) => output(nd[1], nd[2], nd[3]) \in exists

\* the root of a tree of three layers has completed and removed its inputs
C5_Witness ==
    \E nd \in DOMAIN run :
        /\ nd[2] = 0
        /\ run[nd].pc = "done"
        /\ 2 \in DOMAIN StoredTree(nd[1])
        /\ removed # {}

----------------------------------------------------------------------------
(* C6 *)

\* C6: a tree built for n >= 1 leaves has exactly one node at depth 0.
C6_OneRootNode ==
    Built =>
        \A t \in TreeIds :
            LeafCount(t) >= 1 =>
                /\ 0 \in DOMAIN StoredTree(t)
                /\ Len(StoredTree(t)[0]) = 1

----------------------------------------------------------------------------
(* C7 *)

\* C7: for a tree of 0 or 1 leaves the descriptor (tree, depth 0, branch 0)
\* can be created (create_branch_map and is_leaf raise nothing), it has no
\* child nodes, and its requires() names the raw leaves
\* [offset, offset + n) directly.
C7_DegenerateTreeHasRoot ==
    Built =>
        \A t \in TreeIds :
            LeafCount(t) <= 1 =>
                /\ create_branch_map(t, 0).err = ""
                /\ 0 \in DOMAIN create_branch_map(t, 0).map
                /\ is_leaf(t, 0).err = ""
                /\ 1 \notin DOMAIN StoredTree(t)
                /\ LET r == requires(t, 0, 0)
                   IN /\ r.err = ""
                      /\ r.kind = "leaves"
                      /\ r.start = SliceOffset(t)
                      /\ r.end = SliceOffset(t) + LeafCount(t)

----------------------------------------------------------------------------
(* C8 *)

CeilDiv(n, T) == (n + T - 1) \div T

\* the leaf count the distribution rule gives tree i
ExpectedCount(i) ==
    IF i < n_cascade_leaves % n_trees
    THEN CeilDiv(n_cascade_leaves, n_trees)
    ELSE n_cascade_leaves \div n_trees

RECURSIVE ExpectedOffset(_)
ExpectedOffset(i) ==
    IF i = 0 THEN 0 ELSE ExpectedOffset(i - 1) + ExpectedCount(i - 1)

\* C8: each of the first n mod T trees gets ceil(n/T) leaves, each other
\* tree floor(n/T), and the offset requires() uses for tree i is the sum of
\* the leaf counts of the trees before it.
C8_LeafDistribution ==
    Built =>
        \A i \in TreeIds :
            /\ LeafCount(i) = ExpectedCount(i)
            /\ offset_of(i) = ExpectedOffset(i)

\* n = 7 and T = 2: counts 4 and 3, and a leaf node of tree 1 has gathered
\* its inputs from leaf 4 on
C8_Witness ==
    /\ Built
    /\ n_cascade_leaves = 7
    /\ n_trees = 2
    /\ leaves_per_tree_.v = <<4, 3>>
    /\ \E nd \in DOMAIN run :
          /\ nd[1] = 1
          /\ IsLeafMerge(nd)
          /\ run[nd].inputs[1] = LeafTarget(4)

----------------------------------------------------------------------------
(* C9 *)

RECURSIVE Power(_, _)
Power(k, e) == IF e = 0 THEN 1 ELSE k * Power(k, e - 1)

\* the path read as a numeral of base k: the sum of node[i] * k^(len-1-i)
RECURSIVE PositionalValue(_, _)
PositionalValue(node, k) ==
    IF Len(node) = 0 THEN 0
    ELSE node[1] * Power(k, Len(node) - 1) + PositionalValue(Tail(node), k)

\* C9: for every merge factor k >= 2, also above ten, the start that
\* requires() computes for a leaf-merge node is the offset of the tree plus
\* k times the path read in base k, and the end is min(start + k, n).
C9_StartIsBaseKValue ==
    (reqs.called /\ reqs.req.kind = "leaves") =>
        LET node == PathOf(<<reqs.tree, reqs.depth, reqs.branch>>)
            start == SliceOffset(reqs.tree)
                     + merge_factor * PositionalValue(node, merge_factor)
        IN /\ reqs.req.err = ""
           /\ reqs.req.start = start
           /\ reqs.req.end = Min(start + merge_factor, n_cascade_leaves)

----------------------------------------------------------------------------
(* C10 *)

\* the set of branches requires() selects at depth d + 1 for branch b
ChildSet(t, d, b) ==
    LET s == child_branches(t, d, b) IN {s[j] : j \in DOMAIN s}

Branches(t, d) == 0..(Len(StoredTree(t)[d]) - 1)

\* C10: in a tree of n >= 2 leaves, at every depth d above the deepest
\* layer, the child sets of distinct branches are disjoint, each holds
\* between 1 and k branches, and together they are all branches of depth
\* d + 1.
C10_ChildSetsPartitionNextLayer ==
    Built =>
        \A t \in TreeIds :
            LeafCount(t) >= 2 =>
                \A d \in DOMAIN StoredTree(t) :
                    (d + 1) \in DOMAIN StoredTree(t) =>
                        /\ \A b \in Branches(t, d) :
                              /\ Cardinality(ChildSet(t, d, b)) >= 1
                              /\ Cardinality(ChildSet(t, d, b)) <= merge_factor
                        /\ \A b1, b2 \in Branches(t, d) :
                              b1 # b2 => ChildSet(t, d, b1) \cap ChildSet(t, d, b2) = {}
                        /\ UNION {ChildSet(t, d, b) : b \in Branches(t, d)}
                              = Branches(t, d + 1)

\* a tree of three layers whose depth-1 layer has a node with one child
\* and a node with two, and the root has resolved its two children
C10_Witness ==
    /\ Built
    /\ \E t \in TreeIds :
          /\ 2 \in DOMAIN StoredTree(t)
          /\ \E b1, b2 \in Branches(t, 1) :
                /\ Cardinality(ChildSet(t, 1, b1)) = 1
                /\ Cardinality(ChildSet(t, 1, b2)) = 2
          /\ \E nd \in DOMAIN run :
                nd[1] = t /\ nd[2] = 0 /\ Len(run[nd].inputs) = 2

----------------------------------------------------------------------------
(* C11 *)

\* the final-output location declared for tree t
DeclaredOutput(t) == cascade_output.targets[t + 1]

\* nd is the only node at depth 0 of its tree
IsUniqueRoot(nd) ==
    nd[2] = 0 /\ nd[3] = 0 /\ Len(StoredTree(nd[1])[0]) = 1

\* C11: output() of a node is the final-output location declared for its
\* tree exactly when the node is the only depth-0 node of the tree; for
\* every other node it is a file of the cache directory and none of the
\* declared locations.
C11_OutputOfRootIsDeclared ==
    Built =>
        \A nd \in Nodes :
            LET o == output(nd[1], nd[2], nd[3])
            IN /\ (o = DeclaredOutput(nd[1])) <=> IsUniqueRoot(nd)
               /\ ~IsUniqueRoot(nd) =>
                     /\ SubSeq(o, 1, Len(cascade_cache_directory))
                           = cascade_cache_directory
                     /\ \A t \in TreeIds : o # DeclaredOutput(t)

\* with two trees, the root of tree 1 has written the second declared
\* output and a node below it has written its cache file
C11_Witness ==
    /\ n_trees = 2
    /\ <<1, 0, 0>> \in DOMAIN run
    /\ run[<<1, 0, 0>>].merged
    /\ <<"dir/", "out", "_", "1", ".ext">> \in exists
    /\ \E nd \in DOMAIN run :
          /\ nd[1] = 1
          /\ nd[2] = 1
          /\ run[nd].merged
          /\ output(nd[1], nd[2], nd[3]) \in exists

----------------------------------------------------------------------------
(* C12 *)

\* C12: over any sequence of accesses of cascade_trees and leaves_per_tree
\* in one session, _build_cascade_trees executes at most once, and no step
\* after the build changes the stored forest or builds again.
C12_BuiltAtMostOnce ==
    [][/\ n_builds' <= 1
       /\ Built => UNCHANGED workflow]_vars

\* the forest was built once and has been read again since, by run() of
\* two nodes
C12_Witness ==
    /\ Built
    /\ n_builds = 1
    /\ Cardinality(DOMAIN run) >= 2

----------------------------------------------------------------------------
(* C13 *)

\* C13: a removal that fails after a successful merge does not make run()
\* end in failure.
C13_RemoveFailureNotFatal ==
    \A nd \in DOMAIN run : run[nd].pc # "remove_failed"

----------------------------------------------------------------------------
(* C14 *)

\* C14: when n_cascade_leaves is set and differs from the number of leaves
\* the upstream requirement yields, no forest is built for it.
C14_OverrideMismatchReported ==
    (n_cascade_leaves # NO_INT /\ n_cascade_leaves # n_inputs) => ~Built

----------------------------------------------------------------------------
(* C15 *)

\* the other nodes with the parent of nd
Siblings(nd) ==
    {s \in Nodes :
        /\ s # nd
        /\ s[1] = nd[1]
        /\ s[2] = nd[2]
        /\ SubSeq(PathOf(s), 1, Len(PathOf(s)) - 1)
              = SubSeq(PathOf(nd), 1, Len(PathOf(nd)) - 1)}

\* C15: run() removes inputs only after its merge() has returned; until
\* then, and for good when merge() raised, every input of the node is
\* present and unremoved, and after a failed merge the outputs of the
\* siblings that merged are present too.
C15_RemovalOnlyAfterMerge ==
    \A nd \in DOMAIN run :
        /\ run[nd].pc \in {"remove", "remove_failed"} => run[nd].merged
        /\ ~run[nd].merged =>
              \A j \in DOMAIN run[nd].inputs :
                  /\ run[nd].inputs[j] \in exists
                  /\ run[nd].inputs[j] \notin removed
        /\ run[nd].pc = "merge_failed" =>
              \A sb \in Siblings(nd) :
                  Merged(sb) => output(sb[1], sb[2], sb[3]) \in exists

\* the merge of a non-leaf node has failed, keep_nodes is off and a sibling
\* has merged
C15_Witness ==
    \E nd \in DOMAIN run :
        /\ run[nd].pc = "merge_failed"
        /\ ~IsLeafMerge(nd)
        /\ ~keep_nodes
        /\ \E sb \in Siblings(nd) : Merged(sb)

----------------------------------------------------------------------------
(* C16 *)

\* the root of every tree has merged and every declared output is present
AllRootsDone ==
    /\ Built
    /\ \A t \in TreeIds :
          /\ Merged(<<t, 0, 0>>)
          /\ DeclaredOutput(t) \in exists

\* C16: with at least two leaves, under fair scheduling and merges that all
\* succeed, eventually the root of every tree has run and the declared
\* output of every tree is present.
C16_EveryRootEventuallyRuns ==
    (n_inputs >= 2) => <>AllRootsDone

\* the same for workflows all of whose trees get at least two leaves
C16_RootsRunWhenEveryTreeHasTwoLeaves ==
    (n_inputs >= 2 * n_trees) => <>AllRootsDone

\* requires() of a node names only nodes one layer deeper in its own tree.
C16_RequiresGoesDeeper ==
    Built =>
        \A nd \in Nodes :
            \A c \in ChildNodes(nd) : c[1] = nd[1] /\ c[2] = nd[2] + 1

----------------------------------------------------------------------------
(* C17 *)

\* the smallest h >= 1 with k^h >= n
Height(n, k) ==
    CHOOSE h \in 1..n :
        /\ Power(k, h) >= n
        /\ \A g \in 1..(h - 1) : Power(k, g) < n

\* C17: a stored tree over n >= 2 leaves has as many layers as the smallest
\* h >= 1 with merge_factor^h >= n.
C17_LayerCount ==
    Built =>
        \A t \in TreeIds :
            LeafCount(t) >= 2 =>
                Cardinality(DOMAIN StoredTree(t))
                    = Height(LeafCount(t), merge_factor)

\* trees of one, two and three layers are stored, one of them over a leaf
\* count that is no power of the merge factor
C17_Witness ==
    /\ Built
    /\ \E t \in TreeIds :
          /\ LeafCount(t) = 5
          /\ merge_factor = 2
          /\ Cardinality(DOMAIN StoredTree(t)) = 3
          /\ <<t, 0, 0>> \in DOMAIN run

----------------------------------------------------------------------------
(* C18 *)

Range(f) == {f[j] : j \in DOMAIN f}

OutputOf(nd) == output(nd[1], nd[2], nd[3])

InputsOf(nd) == Range(inputs_of(nd[1], nd[2], nd[3]))

\* C18: over the nodes of the forest output() is injective, the output of
\* no node below a root is a declared output, and the inputs a node removes
\* are inputs of no other node.
C18_OutputsDistinct ==
    Built =>
        /\ \A a, c \in Nodes : a # c => OutputOf(a) # OutputOf(c)
        /\ \A a \in Nodes :
              a[2] # 0 => \A t \in TreeIds : OutputOf(a) # DeclaredOutput(t)
        /\ \A a \in Nodes :
              removes_inputs(a[1], a[2]) =>
                  \A c \in Nodes \ {a} : InputsOf(a) \cap InputsOf(c) = {}

\* in a tree of three layers a node of the middle layer has merged and
\* removed the output of a node of the deepest layer, and its own output is
\* present
C18_Witness ==
    /\ Built
    /\ ~keep_nodes
    /\ \E t \in TreeIds :
          /\ 2 \in DOMAIN StoredTree(t)
          /\ <<t, 1, 0>> \in DOMAIN run
          /\ run[<<t, 1, 0>>].pc = "done"
          /\ OutputOf(<<t, 2, 0>>) \in removed
          /\ OutputOf(<<t, 1, 0>>) \in exists
          /\ Merged(<<t, 1, 1>>)

====
